---- MODULE Spec2Model ----
(***************************************************************************)
(* Model of the application state controller of src/App.tsx: the React     *)
(* component App, its six state cells, the initial-load effect, the upload  *)
(* handler and the generate handler, with every await as a suspension      *)
(* point at which other handlers may run.                                  *)
(*                                                                         *)
(* Representation.  Strings the code slices character by character (the    *)
(* prompt, the aspect ratio, data URLs, MIME types) are sequences of       *)
(* one-character strings.  Strings the code only concatenates or stores    *)
(* (error messages, the generated image) are TLA+ strings.  A nullable     *)
(* cell is NULL (the empty tuple) or Some(v) (the one-element tuple).      *)
(***************************************************************************)
EXTENDS Integers, Sequences, FiniteSets, TLC

VARIABLES originalImage, editedImage, prompt, aspectRatio, isLoading, error,
          loadPc, uploads, generates, returned, editedFrom, last

\* returned: the values editImageWithPrompt has resolved with so far.
\* editedFrom: the image part of the request whose result editedImage holds.
\* last: the step taken last, with what it saw before it acted.
vars == <<originalImage, editedImage, prompt, aspectRatio, isLoading, error,
          loadPc, uploads, generates, returned, editedFrom, last>>

NULL == <<>>
Some(v) == <<v>>
Val(o) == o[1]

\* ---------------------------------------------------------------- bounds
MaxUploads == 1
MaxGenerates == 2

\* ------------------------------------------------------- string helpers
\* String.prototype.indexOf(ch): 0-based index of the first occurrence, -1 if none.
IndexOf(s, ch) ==
  IF \E i \in 1..Len(s) : s[i] = ch
  THEN (CHOOSE i \in 1..Len(s) : s[i] = ch /\ \A j \in 1..(i-1) : s[j] # ch) - 1
  ELSE -1

Clamp(n, len) == IF n < 0 THEN 0 ELSE IF n > len THEN len ELSE n

\* String.prototype.substring(a, b): arguments clamped to 0..length and swapped
\* when a > b; the characters at 0-based positions lo .. hi-1.
Substring(s, a, b) ==
  LET ca == Clamp(a, Len(s))
      cb == Clamp(b, Len(s))
      lo == IF ca <= cb THEN ca ELSE cb
      hi == IF ca <= cb THEN cb ELSE ca
  IN  SubSeq(s, lo + 1, hi)

\* A character the module's character set cannot hold is the string naming
\* its code point, "U+00A0".
\* What String.prototype.trim() strips: the ECMAScript WhiteSpace code points
\* (tab, vertical tab, form feed, U+FEFF and the space separators) and the
\* LineTerminator code points (line feed, carriage return, U+2028, U+2029).
WhiteSpace ==
  { "\t", "U+000B", "\f", "U+FEFF",
    " ", "U+00A0", "U+1680",
    "U+2000", "U+2001", "U+2002", "U+2003", "U+2004", "U+2005",
    "U+2006", "U+2007", "U+2008", "U+2009", "U+200A",
    "U+202F", "U+205F", "U+3000",
    "\n", "\r", "U+2028", "U+2029" }

RECURSIVE TrimStart(_)
TrimStart(s) ==
  IF s # <<>> /\ Head(s) \in WhiteSpace THEN TrimStart(Tail(s)) ELSE s

RECURSIVE TrimEnd(_)
TrimEnd(s) ==
  IF s # <<>> /\ s[Len(s)] \in WhiteSpace THEN TrimEnd(SubSeq(s, 1, Len(s) - 1)) ELSE s

\* String.prototype.trim()
Trim(s) == TrimEnd(TrimStart(s))

\* s.split(',')[1]: the text between the first and the second comma (or the
\* end); undefined (NULL) when s holds no comma.
SplitComma1(s) ==
  LET i == IndexOf(s, ",")
  IN  IF i = -1 THEN NULL
      ELSE LET rest == SubSeq(s, i + 2, Len(s))
               j == IndexOf(rest, ",")
           IN  Some(IF j = -1 THEN rest ELSE SubSeq(rest, 1, j))

\* ------------------------------------------------------------ constants
ValidationMessage == "Please upload an image and provide a prompt."
InitialLoadMessage == "Could not load the initial example image. Please try uploading your own."
ReadFailedMessage == "Failed to read the image file."
GenerationFailedPrefix == "Generation failed: "
UnknownErrorMessage == "An unknown error occurred."
PngDataUrlPrefix == "data:image/png;base64,"

ClauseHead ==
  <<" ","P","l","e","a","s","e"," ","e","n","s","u","r","e"," ","t","h","e"," ",
    "f","i","n","a","l"," ","i","m","a","g","e"," ","c","o","m","p","o","s","i",
    "t","i","o","n"," ","i","s"," ","s","u","i","t","a","b","l","e"," ","f","o",
    "r"," ","a"," ">>
ClauseTail == <<" ","a","s","p","e","c","t"," ","r","a","t","i","o",".">>

Original == <<"o","r","i","g","i","n","a","l">>
Ratio1x1 == <<"1",":","1">>
Ratio9x16 == <<"9",":","1","6">>
Ratio4x5 == <<"4",":","5">>
\* the keys of aspectOptions
AspectKeys == {Original, Ratio1x1, Ratio9x16, Ratio4x5}

\* the em dash of the initial prompt
EmDash == "U+2014"

\* useState initial value of prompt
DefaultPrompt ==
  <<
     "R","e","p","l","a","c","e"," ","t","h","e"," ","b","a","c","k","g","r","o","u","n","d"," ","o",
     "f"," ","t","h","e"," ","i","m","a","g","e"," ","w","i","t","h","o","u","t"," ","a","l","t","e",
     "r","i","n","g"," ","t","h","e"," ","p","r","o","d","u","c","t"," ","o","r"," ","i","t","s"," ",
     "p","a","c","k","a","g","i","n","g","."," ","P","l","a","c","e"," ","t","h","e"," ","p","r","o",
     "d","u","c","t"," ","c","e","n","t","e","r","e","d"," ","o","n"," ","a"," ","w","o","o","d","e",
     "n"," ","c","o","u","n","t","e","r","t","o","p"," ","o","r"," ","t","a","b","l","e",","," ","a",
     "s"," ","i","f"," ","i","t"," ","i","s"," ","r","e","s","t","i","n","g"," ","n","a","t","u","r",
     "a","l","l","y"," ","o","n"," ","i","t","."," ","T","h","e"," ","n","e","w"," ","b","a","c","k",
     "g","r","o","u","n","d"," ","s","h","o","u","l","d"," ","b","e"," ","a"," ","s","o","f","t","l",
     "y"," ","b","l","u","r","r","e","d"," ","w","a","r","e","h","o","u","s","e"," ","o","r"," ","s",
     "t","o","c","k","r","o","o","m"," ","e","n","v","i","r","o","n","m","e","n","t",","," ","w","i",
     "t","h"," ","w","a","r","m",","," ","r","e","a","l","i","s","t","i","c"," ","l","i","g","h","t",
     "i","n","g"," ","a","n","d"," ","d","e","p","t","h"," ","o","f"," ","f","i","e","l","d","."," ",
     "D","o"," ","n","o","t"," ","m","o","d","i","f","y",","," ","c","r","o","p",","," ","o","r"," ",
     "d","i","s","t","o","r","t"," ","t","h","e"," ","p","r","o","d","u","c","t"," ","o","r"," ","i",
     "t","s"," ","p","a","c","k","a","g","i","n","g"," ",EmDash," ","k","e","e","p"," ","c","o","l","o",
     "r","s",","," ","p","r","o","p","o","r","t","i","o","n","s",","," ","a","n","d"," ","t","e","x",
     "t","u","r","e","s"," ","e","x","a","c","t","l","y"," ","a","s"," ","i","n"," ","t","h","e"," ",
     "o","r","i","g","i","n","a","l"," ","i","m","a","g","e","."," ","E","n","s","u","r","e"," ","t",
     "h","e"," ","p","r","o","d","u","c","t"," ","a","n","d"," ","p","a","c","k","a","g","i","n","g",
     " ","a","r","e"," ","s","h","a","r","p"," ","a","n","d"," ","i","n"," ","f","o","c","u","s",",",
     " ","w","h","i","l","e"," ","t","h","e"," ","b","a","c","k","g","r","o","u","n","d"," ","r","e",
     "m","a","i","n","s"," ","s","o","f","t","l","y"," ","b","l","u","r","r","e","d","."," ","M","a",
     "i","n","t","a","i","n"," ","a"," ","p","r","o","f","e","s","s","i","o","n","a","l",","," ","c",
     "l","e","a","n",","," ","a","n","d"," ","r","e","a","l","i","s","t","i","c"," ","p","h","o","t",
     "o","g","r","a","p","h","i","c"," ","l","o","o","k"," ","s","u","i","t","a","b","l","e"," ","f",
     "o","r"," ","e","-","c","o","m","m","e","r","c","e"," ","p","r","o","d","u","c","t"," ","d","i",
     "s","p","l","a","y","."
  >>

\* ---------------------------------------------------------------- inputs
ImagePng == <<"i","m","a","g","e","/","p","n","g">>
ImageJpeg == <<"i","m","a","g","e","/","j","p","e","g">>

\* A file is its declared type (empty when the browser knows none) and the
\* base64 text of its bytes.
Files == { [type |-> ImagePng, b64 |-> <<"Q","U","J","D">>] }

\* The File urlToDataUrl builds from the fetched blob (type: blob.type).
InitialFile == [type |-> ImageJpeg, b64 |-> <<"/","9","j","/">>]

\* Texts the user can type into the prompt textarea: the empty text, one of
\* whitespace only (a form feed and a no-break space), one with leading,
\* interior and trailing whitespace.
Prompts == { <<>>, <<"\f","U+00A0">>, <<" ","a"," ","b","\n">> }

\* What editImageWithPrompt can resolve with, and what it can reject with:
\* an Error carrying a message, or a value that is not an Error.
GenResults == {"Zm9v", "YmFy"}
GenErrors ==
  { [isError |-> TRUE,  message |-> "quota exceeded"],
    [isError |-> TRUE,  message |-> ""],
    [isError |-> FALSE, message |-> "not an Error"] }

\* --------------------------------------------------- Image Codec Helper
DataColon == <<"d","a","t","a",":">>
Base64Comma == <<";","b","a","s","e","6","4",",">>

\* the type a data URL declares for a file without one
OctetStream ==
  <<"a","p","p","l","i","c","a","t","i","o","n","/",
    "o","c","t","e","t","-","s","t","r","e","a","m">>

\* FileReader.readAsDataURL: "data:" type ";base64," payload, the type being
\* application/octet-stream for a file whose type is empty
ReadAsDataURL(file) ==
  DataColon \o (IF file.type = <<>> THEN OctetStream ELSE file.type)
            \o Base64Comma \o file.b64

\* fileToBase64, reader.onload
fileToBase64(file) ==
  LET result == ReadAsDataURL(file)
      mimeType == Substring(result, IndexOf(result, ":") + 1, IndexOf(result, ";"))
  IN  [dataUrl |-> result, mimeType |-> mimeType]

\* ------------------------------------------------------------ the state
Init ==
  /\ originalImage = NULL
  /\ editedImage = NULL
  /\ prompt = DefaultPrompt
  /\ aspectRatio = Original
  /\ isLoading = TRUE
  /\ error = NULL
  /\ loadPc = "mount"
  /\ uploads = <<>>
  /\ generates = <<>>
  /\ returned = {}
  /\ editedFrom = NULL
  /\ last = [op |-> "init"]

Mounted == loadPc # "mount"

\* s without its i-th element
Remove(s, i) == SubSeq(s, 1, i - 1) \o SubSeq(s, i + 1, Len(s))

\* ----------------------------------------------------------- Initial Load
\* useEffect on mount: loadInitialImage up to its await of urlToDataUrl,
\* which is suspended in fetch.
loadInitialImage ==
  /\ loadPc = "mount"
  /\ error' = NULL
  /\ isLoading' = TRUE
  /\ loadPc' = "fetch"
  /\ last' = [op |-> "loadStart"]
  /\ UNCHANGED <<originalImage, editedImage, prompt, aspectRatio, uploads, generates, returned, editedFrom>>

\* urlToDataUrl: fetch resolved with response.ok, now suspended in response.blob()
urlToDataUrl_fetched ==
  /\ loadPc = "fetch"
  /\ loadPc' = "blob"
  /\ last' = [op |-> "loadFetched"]
  /\ UNCHANGED <<originalImage, editedImage, prompt, aspectRatio, isLoading, error,
                 uploads, generates, returned, editedFrom>>

\* urlToDataUrl: blob resolved, File built, fileToBase64 started its reader
urlToDataUrl_blob ==
  /\ loadPc = "blob"
  /\ loadPc' = "read"
  /\ last' = [op |-> "loadBlob"]
  /\ UNCHANGED <<originalImage, editedImage, prompt, aspectRatio, isLoading, error,
                 uploads, generates, returned, editedFrom>>

\* The pc at which each failure of the initial load can happen:
\* fetch rejects, the response is not ok, blob() rejects, the reader errors.
LoadFailures ==
  { [cause |-> "fetchRejected", at |-> "fetch"],
    [cause |-> "notOk",         at |-> "fetch"],
    [cause |-> "blobRejected",  at |-> "blob"],
    [cause |-> "readError",     at |-> "read"] }

\* variant: the loaded example does not replace an image already present
loadInitialImage_resolved_keepsExisting ==
  /\ loadPc = "read"
  /\ originalImage' = IF originalImage = NULL THEN Some(fileToBase64(InitialFile))
                                              ELSE originalImage
  /\ isLoading' = FALSE
  /\ loadPc' = "done"
  /\ last' = [op |-> "loadOk", preOriginal |-> originalImage]
  /\ UNCHANGED <<editedImage, prompt, aspectRatio, error, uploads, generates, returned, editedFrom>>

\* loadInitialImage: try body after the await
loadInitialImage_resolved ==
  /\ loadPc = "read"
  /\ originalImage' = Some(fileToBase64(InitialFile))
  /\ isLoading' = FALSE
  /\ loadPc' = "done"
  /\ last' = [op |-> "loadOk", preOriginal |-> originalImage]
  /\ UNCHANGED <<editedImage, prompt, aspectRatio, error, uploads, generates, returned, editedFrom>>

\* variant: the catch surfaces the raw error instead of the fixed message
loadInitialImage_rejected_raw ==
  \E f \in LoadFailures :
    /\ loadPc = f.at
    /\ error' = Some(f.cause)
    /\ isLoading' = FALSE
    /\ loadPc' = "done"
    /\ last' = [op |-> "loadFail", cause |-> f.cause, preOriginal |-> originalImage]
    /\ UNCHANGED <<originalImage, editedImage, prompt, aspectRatio, uploads, generates, returned, editedFrom>>

\* loadInitialImage: catch and finally
loadInitialImage_rejected ==
  \E f \in LoadFailures :
    /\ loadPc = f.at
    /\ error' = Some(InitialLoadMessage)
    /\ isLoading' = FALSE
    /\ loadPc' = "done"
    /\ last' = [op |-> "loadFail", cause |-> f.cause, preOriginal |-> originalImage]
    /\ UNCHANGED <<originalImage, editedImage, prompt, aspectRatio, uploads, generates, returned, editedFrom>>

\* ----------------------------------------------------------------- Upload
\* variant: setEditedImage(null) left out
handleImageUpload_start_keepsEdited(file) ==
  /\ Len(uploads) < MaxUploads
  /\ isLoading' = TRUE
  /\ error' = NULL
  /\ uploads' = Append(uploads, file)
  /\ last' = [op |-> "uploadStart", preEdited |-> editedImage, hadError |-> error # NULL]
  /\ UNCHANGED <<originalImage, editedImage, prompt, aspectRatio, loadPc, generates, returned, editedFrom>>

\* handleImageUpload, if (file): the try body up to its await
handleImageUpload_start(file) ==
  /\ Len(uploads) < MaxUploads
  /\ isLoading' = TRUE
  /\ error' = NULL
  /\ editedImage' = NULL
  /\ editedFrom' = NULL
  /\ uploads' = Append(uploads, file)
  /\ last' = [op |-> "uploadStart", preEdited |-> editedImage, hadError |-> error # NULL]
  /\ UNCHANGED <<originalImage, prompt, aspectRatio, loadPc, generates, returned>>

\* handleImageUpload up to its await; fileOpt is event.target.files?.[0]
handleImageUpload(fileOpt) ==
  /\ Mounted
  /\ IF fileOpt = NULL
     THEN /\ last' = [op |-> "uploadNoFile"]
          /\ UNCHANGED <<originalImage, editedImage, prompt, aspectRatio, isLoading, error,
                         loadPc, uploads, generates, returned, editedFrom>>
     ELSE handleImageUpload_start(Val(fileOpt))

\* handleImageUpload: try body after the await
handleImageUpload_resolved(id) ==
  /\ id \in DOMAIN uploads
  /\ originalImage' = Some(fileToBase64(uploads[id]))
  /\ isLoading' = FALSE
  /\ uploads' = Remove(uploads, id)
  /\ last' = [op |-> "uploadOk", file |-> uploads[id], preOriginal |-> originalImage]
  /\ UNCHANGED <<editedImage, prompt, aspectRatio, error, loadPc, generates, returned, editedFrom>>

\* variant: the catch also drops the stored image
handleImageUpload_rejected_clearsOriginal(id) ==
  /\ id \in DOMAIN uploads
  /\ error' = Some(ReadFailedMessage)
  /\ originalImage' = NULL
  /\ isLoading' = FALSE
  /\ uploads' = Remove(uploads, id)
  /\ last' = [op |-> "uploadFail"]
  /\ UNCHANGED <<editedImage, prompt, aspectRatio, loadPc, generates, returned, editedFrom>>

\* variant: the finally block left out
handleImageUpload_rejected_staysLoading(id) ==
  /\ id \in DOMAIN uploads
  /\ error' = Some(ReadFailedMessage)
  /\ uploads' = Remove(uploads, id)
  /\ last' = [op |-> "uploadFail"]
  /\ UNCHANGED <<originalImage, editedImage, prompt, aspectRatio, isLoading, loadPc,
                 generates, returned, editedFrom>>

\* handleImageUpload: catch and finally
handleImageUpload_rejected(id) ==
  /\ id \in DOMAIN uploads
  /\ error' = Some(ReadFailedMessage)
  /\ isLoading' = FALSE
  /\ uploads' = Remove(uploads, id)
  /\ last' = [op |-> "uploadFail"]
  /\ UNCHANGED <<originalImage, editedImage, prompt, aspectRatio, loadPc, generates, returned, editedFrom>>

\* ------------------------------------------------------- prompt and ratio
\* textarea onChange
setPrompt(p) ==
  /\ Mounted
  /\ prompt' = p
  /\ last' = [op |-> "setPrompt"]
  /\ UNCHANGED <<originalImage, editedImage, aspectRatio, isLoading, error,
                 loadPc, uploads, generates, returned, editedFrom>>

\* aspect button onClick
setAspectRatio(key) ==
  /\ Mounted
  /\ aspectRatio' = key
  /\ last' = [op |-> "setAspectRatio"]
  /\ UNCHANGED <<originalImage, editedImage, prompt, isLoading, error,
                 loadPc, uploads, generates, returned, editedFrom>>

\* --------------------------------------------------------------- Generate
\* variant: the prompt is not validated
ValidationFails_imageOnly(image, p) == image = NULL

\* !originalImage || !prompt
ValidationFails(image, p) == image = NULL \/ p = <<>>

\* variant: the clause is appended to the untrimmed prompt
FinalPrompt_noTrim(p, ratio) ==
  IF ratio # Original THEN p \o ClauseHead \o ratio \o ClauseTail ELSE p

\* variant: the prompt is trimmed whatever the ratio
FinalPrompt_alwaysTrim(p, ratio) ==
  IF ratio # Original THEN Trim(p) \o ClauseHead \o ratio \o ClauseTail ELSE Trim(p)

\* finalPrompt
FinalPrompt(p, ratio) ==
  IF ratio # Original THEN Trim(p) \o ClauseHead \o ratio \o ClauseTail ELSE p

\* the three arguments of editImageWithPrompt
ClientArgs(image, p, ratio) ==
  [base64Data |-> SplitComma1(image.dataUrl),
   mimeType |-> image.mimeType,
   prompt |-> FinalPrompt(p, ratio)]

\* the image part of a request in flight
InFlight(image) ==
  [base64Data |-> SplitComma1(image.dataUrl), mimeType |-> image.mimeType]

\* variant: the declared type is taken to be JPEG
EditedDataUrl_jpeg(b) == "data:image/jpeg;base64," \o b

\* setEditedImage argument on success
EditedDataUrl(b) == PngDataUrlPrefix \o b

\* variant: e.message read without the instanceof test
ErrorMessage_noInstanceof(e) == IF e.isError THEN e.message ELSE "undefined"

\* errorMessage in the catch
ErrorMessage(e) == IF e.isError THEN e.message ELSE UnknownErrorMessage

\* setError argument on failure
GenerationError(e) == GenerationFailedPrefix \o ErrorMessage(e)

\* variant: the early return also resets the loading flag
handleGenerate_invalid_clearsLoading(via) ==
  /\ error' = Some(ValidationMessage)
  /\ isLoading' = FALSE
  /\ last' = [op |-> "generate", via |-> via, called |-> FALSE, preLoading |-> isLoading]
  /\ UNCHANGED <<originalImage, editedImage, prompt, aspectRatio,
                 loadPc, uploads, generates, returned, editedFrom>>

\* handleGenerate: the early return
handleGenerate_invalid(via) ==
  /\ error' = Some(ValidationMessage)
  /\ last' = [op |-> "generate", via |-> via, called |-> FALSE, preLoading |-> isLoading]
  /\ UNCHANGED <<originalImage, editedImage, prompt, aspectRatio, isLoading,
                 loadPc, uploads, generates, returned, editedFrom>>

\* variant: setError(null) left out
handleGenerate_start_keepsError(via) ==
  /\ Len(generates) < MaxGenerates
  /\ isLoading' = TRUE
  /\ editedImage' = NULL
  /\ editedFrom' = NULL
  /\ generates' = Append(generates, InFlight(Val(originalImage)))
  /\ last' = [op |-> "generate", via |-> via, called |-> TRUE, preLoading |-> isLoading,
              hadError |-> error # NULL, preEdited |-> editedImage,
              sent |-> ClientArgs(Val(originalImage), prompt, aspectRatio)]
  /\ UNCHANGED <<originalImage, prompt, aspectRatio, error, loadPc, uploads, returned>>

\* variant: setEditedImage(null) left out
handleGenerate_start_keepsEdited(via) ==
  /\ Len(generates) < MaxGenerates
  /\ isLoading' = TRUE
  /\ error' = NULL
  /\ generates' = Append(generates, InFlight(Val(originalImage)))
  /\ last' = [op |-> "generate", via |-> via, called |-> TRUE, preLoading |-> isLoading,
              hadError |-> error # NULL, preEdited |-> editedImage,
              sent |-> ClientArgs(Val(originalImage), prompt, aspectRatio)]
  /\ UNCHANGED <<originalImage, editedImage, prompt, aspectRatio, loadPc, uploads, returned, editedFrom>>

\* handleGenerate: from setIsLoading(true) to the await of editImageWithPrompt
handleGenerate_start(via) ==
  /\ Len(generates) < MaxGenerates
  /\ isLoading' = TRUE
  /\ error' = NULL
  /\ editedImage' = NULL
  /\ editedFrom' = NULL
  /\ generates' = Append(generates, InFlight(Val(originalImage)))
  /\ last' = [op |-> "generate", via |-> via, called |-> TRUE, preLoading |-> isLoading,
              hadError |-> error # NULL, preEdited |-> editedImage,
              sent |-> ClientArgs(Val(originalImage), prompt, aspectRatio)]
  /\ UNCHANGED <<originalImage, prompt, aspectRatio, loadPc, uploads, returned>>

\* handleGenerate up to its await or its early return; via records the caller
handleGenerate(via) ==
  /\ Mounted
  /\ IF ValidationFails(originalImage, prompt)
     THEN handleGenerate_invalid(via)
     ELSE handleGenerate_start(via)

\* handleGenerate: try body after the await, b is newImageBase64
handleGenerate_resolved(id, b) ==
  /\ id \in DOMAIN generates
  /\ editedImage' = Some(EditedDataUrl(b))
  /\ isLoading' = FALSE
  /\ generates' = Remove(generates, id)
  /\ returned' = returned \cup {b}
  /\ editedFrom' = Some(generates[id])
  /\ last' = [op |-> "genOk", b |-> b]
  /\ UNCHANGED <<originalImage, prompt, aspectRatio, error, loadPc, uploads>>

\* variant: setEditedImage placed after the try, where newImageBase64 is undefined
handleGenerate_rejected_setsImage(id, e) ==
  /\ id \in DOMAIN generates
  /\ error' = Some(GenerationError(e))
  /\ editedImage' = Some(EditedDataUrl("undefined"))
  /\ isLoading' = FALSE
  /\ generates' = Remove(generates, id)
  /\ last' = [op |-> "genFail", e |-> e, preEdited |-> editedImage]
  /\ UNCHANGED <<originalImage, prompt, aspectRatio, loadPc, uploads, returned, editedFrom>>

\* variant: the catch issues the request once more
handleGenerate_rejected_retries(id, e) ==
  /\ id \in DOMAIN generates
  /\ generates' = Append(Remove(generates, id), generates[id])
  /\ last' = [op |-> "genFail", e |-> e, preEdited |-> editedImage]
  /\ UNCHANGED <<originalImage, editedImage, prompt, aspectRatio, isLoading, error,
                 loadPc, uploads, returned, editedFrom>>

\* handleGenerate: catch and finally, e is the rejection value
handleGenerate_rejected(id, e) ==
  /\ id \in DOMAIN generates
  /\ error' = Some(GenerationError(e))
  /\ isLoading' = FALSE
  /\ generates' = Remove(generates, id)
  /\ last' = [op |-> "genFail", e |-> e, preEdited |-> editedImage]
  /\ UNCHANGED <<originalImage, editedImage, prompt, aspectRatio, loadPc, uploads, returned, editedFrom>>

\* disabled attribute of the generate button
GenerateDisabled == isLoading \/ originalImage = NULL \/ prompt = <<>>

\* the generate button's onClick: fires only while the button is enabled
clickGenerate == ~GenerateDisabled /\ handleGenerate("button")

\* handleGenerate called as a function, whatever the button shows
callGenerate == handleGenerate("call")

\* --------------------------------------------------------- specifications
Upload ==
  \/ \E fileOpt \in {NULL} \cup {Some(f) : f \in Files} : handleImageUpload(fileOpt)
  \/ \E id \in DOMAIN uploads : handleImageUpload_resolved(id)
  \/ \E id \in DOMAIN uploads : handleImageUpload_rejected(id)

Load ==
  \/ loadInitialImage
  \/ urlToDataUrl_fetched
  \/ urlToDataUrl_blob
  \/ loadInitialImage_resolved
  \/ loadInitialImage_rejected

Edit ==
  \/ \E p \in Prompts \cup {DefaultPrompt} : setPrompt(p)
  \/ \E key \in AspectKeys : setAspectRatio(key)

Settle ==
  \/ \E id \in DOMAIN generates, b \in GenResults : handleGenerate_resolved(id, b)
  \/ \E id \in DOMAIN generates, e \in GenErrors : handleGenerate_rejected(id, e)

\* every handler callable in every mounted state
Next == Load \/ Upload \/ Edit \/ Settle \/ callGenerate
Spec == Init /\ [][Next]_vars

\* the pending awaits settle: every fetch, blob, file read and Generation
\* Client call eventually resolves or rejects, and the mount effect runs
UploadSettle ==
  \/ \E id \in DOMAIN uploads : handleImageUpload_resolved(id)
  \/ \E id \in DOMAIN uploads : handleImageUpload_rejected(id)

\* The workflows alone, the prompt and the ratio staying as constructed:
\* the textarea and the ratio buttons set no other cell.
NextFair == Load \/ Upload \/ Settle \/ callGenerate
SpecFair ==
  /\ Init /\ [][NextFair]_vars
  /\ WF_vars(Load) /\ WF_vars(UploadSettle) /\ WF_vars(Settle)

\* handlers reached through the rendered controls only
NextUI == Load \/ Upload \/ Edit \/ Settle \/ clickGenerate
SpecUI == Init /\ [][NextUI]_vars

\* ------------------------------------------------------------ properties
\* the initial load between its start and its completion
LoadPending == loadPc \in {"fetch", "blob", "read"}

\* workflows that have reached their asynchronous step and not completed
InFlightCount == (IF LoadPending THEN 1 ELSE 0) + Len(uploads) + Len(generates)

\* C1: a handleGenerate step taken while originalImage is null or the prompt
\* is empty adds no request to the Generation Client's pending calls.
C1_NoCallWithoutImageOrPrompt ==
  [][(last'.op = "generate" /\ (originalImage = NULL \/ prompt = <<>>))
       => (generates' = generates /\ ~last'.called)]_vars

C1_Witness ==
  /\ last.op = "generate"
  /\ ~last.called
  /\ originalImage # NULL
  /\ prompt = <<>>

\* C2 as stated: after handleGenerate took its early return, isLoading is
\* false and error is the validation message.
C2_Original ==
  (last.op = "generate" /\ ~last.called)
    => (isLoading = FALSE /\ error = Some("Please upload an image and provide a prompt."))

\* C2 amended: the early return of handleGenerate leaves isLoading as it was
\* (false if it was false, still true if a pending workflow had set it) and
\* sets error to the validation message.
C2_ValidationKeepsLoading ==
  (last.op = "generate" /\ ~last.called)
    => (isLoading = last.preLoading /\ error = Some("Please upload an image and provide a prompt."))

C2_Witness ==
  /\ last.op = "generate"
  /\ ~last.called
  /\ last.preLoading
  /\ Len(uploads) > 0
  /\ prompt = <<>>

\* C3: editedImage is null or the PNG data URL of a base64 string that a
\* Generation Client call has resolved with.
C3_EditedOnlyFromSuccess ==
  editedImage = NULL \/ \E b \in returned : editedImage = Some("data:image/png;base64," \o b)

C3_Witness ==
  /\ editedImage # NULL
  /\ last.op = "genFail"
  /\ originalImage # NULL

\* C4: right after an upload with a file has started, editedImage is null.
C4_UploadStartClearsEdited ==
  last.op = "uploadStart" => editedImage = NULL

C4_Witness ==
  /\ last.op = "uploadStart"
  /\ last.preEdited # NULL
  /\ editedImage = NULL

\* C5 as stated: when the initial load has failed, isLoading is false, error
\* is the fixed fallback message and originalImage is null.
C5_Original ==
  last.op = "loadFail"
    => /\ isLoading = FALSE
       /\ error = Some("Could not load the initial example image. Please try uploading your own.")
       /\ originalImage = NULL

\* C5 amended: when the initial load has failed, isLoading is false, error is
\* the fixed fallback message, and originalImage is what it was before the
\* failure: null, or the image of an upload that completed in the meantime.
C5_LoadFailure ==
  last.op = "loadFail"
    => /\ isLoading = FALSE
       /\ error = Some("Could not load the initial example image. Please try uploading your own.")
       /\ originalImage = last.preOriginal
       /\ originalImage \in {NULL} \cup {Some(fileToBase64(f)) : f \in Files}

C5_Witness ==
  /\ last.op = "loadFail"
  /\ last.cause = "notOk"
  /\ originalImage = NULL
  /\ isLoading = FALSE

\* C6: right after a Generation Client call resolved with b, editedImage is
\* "data:image/png;base64," followed by b.
C6_EditedIsPngDataUrl ==
  last.op = "genOk" => editedImage = Some("data:image/png;base64," \o last.b)

C6_Witness ==
  /\ last.op = "genOk"
  /\ last.b = "Zm9v"
  /\ editedImage = Some("data:image/png;base64,Zm9v")
  /\ originalImage # NULL
  /\ Val(originalImage).mimeType = ImageJpeg

\* C7: with a ratio other than original selected, the prompt sent is the
\* trimmed prompt followed by the clause naming that ratio.
C7_ClauseAppended ==
  (last.op = "generate" /\ last.called /\ aspectRatio # Original)
    => /\ aspectRatio \in {Ratio1x1, Ratio9x16, Ratio4x5}
       /\ last.sent.prompt = Trim(prompt) \o ClauseHead \o aspectRatio \o ClauseTail

C7_Witness ==
  /\ last.op = "generate"
  /\ last.called
  /\ aspectRatio = Ratio4x5
  /\ prompt = <<" ","a"," ","b","\n">>
  /\ last.sent.prompt = <<"a"," ","b">> \o ClauseHead \o <<"4",":","5">> \o ClauseTail

\* C8: with the ratio original selected, the prompt sent is the prompt as
\* typed, untrimmed and with nothing appended.
C8_OriginalSendsRawPrompt ==
  (last.op = "generate" /\ last.called /\ aspectRatio = Original)
    => last.sent.prompt = prompt

C8_Witness ==
  /\ last.op = "generate"
  /\ last.called
  /\ aspectRatio = Original
  /\ prompt = <<" ","a"," ","b","\n">>
  /\ last.sent.prompt = <<" ","a"," ","b","\n">>

\* C9: right after a Generation Client call rejected, error is
\* "Generation failed: " followed by the Error's message, or by
\* "An unknown error occurred." for a value that is not an Error; editedImage
\* is what it was and isLoading is false.
C9_GenerationFailure ==
  last.op = "genFail"
    => /\ error = Some("Generation failed: " \o
                         (IF last.e.isError THEN last.e.message
                                            ELSE "An unknown error occurred."))
       /\ editedImage = last.preEdited
       /\ isLoading = FALSE

C9_Witness ==
  /\ last.op = "genFail"
  /\ ~last.e.isError
  /\ error = Some("Generation failed: An unknown error occurred.")
  /\ isLoading = FALSE

\* C10: a generate workflow started from the button is the only workflow in
\* flight: none can be started while an initial load, an upload or an earlier
\* generate is pending.
C10_Original ==
  (last.op = "generate" /\ last.called) => InFlightCount = 1

\* C11: an upload and the initial load that overlap both commit, and the one
\* that resolves last decides originalImage: right after the initial load
\* succeeded originalImage is the example image, right after an upload
\* succeeded it is the uploaded file's image, whatever was stored before.
C11_LastCommitWins ==
  /\ last.op = "loadOk" => originalImage = Some(fileToBase64(InitialFile))
  /\ last.op = "uploadOk" => originalImage = Some(fileToBase64(last.file))

\* the initial load resolved after an upload that was started and committed
\* while the load was pending, and replaced the uploaded image
C11_Witness ==
  /\ last.op = "loadOk"
  /\ last.preOriginal \in {Some(fileToBase64(f)) : f \in Files}
  /\ originalImage = Some(fileToBase64(InitialFile))
  /\ originalImage # last.preOriginal

\* the steps that end a workflow that had reached its asynchronous step
CompletionOps == {"loadOk", "loadFail", "uploadOk", "uploadFail", "genOk", "genFail"}

\* every started workflow has completed
Quiescent == loadPc = "done" /\ uploads = <<>> /\ generates = <<>>

\* C12: every completion of a workflow, on success and on failure, leaves
\* isLoading false; when every started workflow has completed isLoading is
\* false; and, the asynchronous calls settling, a loading state always leads
\* to one where isLoading is false.
C12_LoadingEnds ==
  /\ [](last.op \in CompletionOps => ~isLoading)
  /\ [](Quiescent => ~isLoading)
  /\ (isLoading ~> ~isLoading)

\* all workflows done, the last one to complete having failed
C12_Witness ==
  /\ Quiescent
  /\ last.op = "uploadFail"
  /\ ~isLoading
  /\ error = Some(ReadFailedMessage)

\* C13: right after the initial load, an upload with a file, or a generate
\* that passed validation has started its asynchronous step, error is null.
C13_StartClearsError ==
  (\/ last.op \in {"loadStart", "uploadStart"}
   \/ (last.op = "generate" /\ last.called))
    => error = NULL

C13_Witness ==
  /\ last.op = "generate"
  /\ last.called
  /\ last.hadError
  /\ error = NULL

\* C14 as stated: after every invocation of the generate workflow
\* editedImage is null.
C14_Original ==
  last.op = "generate" => editedImage = NULL

\* C14 amended: an invocation of handleGenerate that passes validation sets
\* editedImage to null, one that fails validation leaves it as it was, and
\* editedImage then changes to a non-null value only by a Generation Client
\* call resolving (of this attempt or of an earlier one still pending).
C14_StartClearsEdited ==
  [][/\ (last'.op = "generate" /\ last'.called) => editedImage' = NULL
     /\ (last'.op = "generate" /\ ~last'.called) => editedImage' = editedImage
     /\ (editedImage' # NULL /\ editedImage' # editedImage) => last'.op = "genOk"]_vars

C14_Witness ==
  /\ last.op = "generate"
  /\ last.called
  /\ last.preEdited # NULL
  /\ editedImage = NULL

\* the order in which the initial load passes its awaits, each at most once
LoadOrder ==
  { <<"mount", "fetch">>, <<"fetch", "blob">>, <<"blob", "read">>,
    <<"fetch", "done">>, <<"blob", "done">>, <<"read", "done">> }

\* C15: a pending call to the file reader or to the Generation Client is added
\* only by the step that starts a workflow, one per workflow; a failure
\* removes the failed call and adds none; the initial load passes fetch,
\* blob and read at most once each and never starts again.
C15_NoRetry ==
  [][/\ Len(generates') > Len(generates)
          => (last'.op = "generate" /\ Len(generates') = Len(generates) + 1)
     /\ Len(uploads') > Len(uploads)
          => (last'.op = "uploadStart" /\ Len(uploads') = Len(uploads) + 1)
     /\ last'.op = "genFail"
          => (Len(generates') = Len(generates) - 1 /\ uploads' = uploads /\ loadPc' = loadPc)
     /\ last'.op = "uploadFail"
          => (Len(uploads') = Len(uploads) - 1 /\ generates' = generates /\ loadPc' = loadPc)
     /\ last'.op = "loadFail"
          => (loadPc' = "done" /\ uploads' = uploads /\ generates' = generates)
     /\ loadPc' # loadPc => <<loadPc, loadPc'>> \in LoadOrder]_vars

\* a generation failed and nothing is in flight afterwards
C15_Witness ==
  /\ last.op = "genFail"
  /\ generates = <<>>
  /\ uploads = <<>>
  /\ loadPc = "done"

\* C16: while the initial load, an upload or a generate is pending,
\* isLoading is true.
C16_LoadingWhilePending ==
  InFlightCount > 0 => isLoading

\* C17: a non-null editedImage is the result of a request made with the
\* image now stored as originalImage.
C17_EditedFromCurrentOriginal ==
  editedImage # NULL
    => (originalImage # NULL /\ editedFrom = Some(InFlight(Val(originalImage))))

\* the six state cells and the pending awaits
Cells ==
  <<originalImage, editedImage, prompt, aspectRatio, isLoading, error,
    loadPc, uploads, generates>>

\* C18: only the textarea changes prompt and only the ratio buttons change
\* aspectRatio; no step of the generate workflow changes originalImage; a
\* failed upload and a failed initial load leave originalImage as it was; a
\* file-selection event without a file changes no cell.
C18_Frame ==
  [][/\ last'.op # "setPrompt" => prompt' = prompt
     /\ last'.op # "setAspectRatio" => aspectRatio' = aspectRatio
     /\ last'.op \in {"generate", "genOk", "genFail"} => originalImage' = originalImage
     /\ last'.op \in {"uploadFail", "loadFail"} => originalImage' = originalImage
     /\ last'.op = "uploadNoFile" => Cells' = Cells]_vars

\* an upload failed with an image stored, and the image is still there
C18_Witness ==
  /\ last.op = "uploadFail"
  /\ originalImage # NULL
  /\ error = Some(ReadFailedMessage)

====
